---- MODULE Spec2Model ----
(***************************************************************************)
(* A model of the toki pona typing game (src/src/main.rs): word selection  *)
(* (Game::new), the diff engine (Game::calculate_spans), the event handler *)
(* (Game::crossterm_event), the frame's word panels (draw_game_ratatui)    *)
(* and the game loop of main.                                              *)
(*                                                                         *)
(* A String is a sequence of one-character strings: "mi" is <<"m", "i">>.  *)
(* A usize value that may exceed TLC's integers is a sequence of base-256  *)
(* limbs, least significant first, without leading zero limbs.             *)
(***************************************************************************)
EXTENDS Integers, Sequences, FiniteSets, TLC

VARIABLES
    WORDS,            \* static WORDS, in the iteration order of WORDS.values()
    settings,         \* the GameSettings<usize> handed to Game::new
    overflow_checks,  \* build profile: usize overflow panics (TRUE) or wraps (FALSE)
    pc,               \* position of main / of the function under check
    panic,            \* the panic message once the program aborted, else None
    keys,             \* the keys sort_by_cached_key computed, in iteration order
    words,            \* Game.words
    key_log,          \* Game.key_log (the key codes; the Instant is the position)
    target,           \* Game.target
    input,            \* Game.input
    spans,            \* Game.spans
    frame,            \* what the last draw_game_ratatui showed
    cs                \* the locals of a running calculate_spans

vars == <<WORDS, settings, overflow_checks, pc, panic, keys, words, key_log,
          target, input, spans, frame, cs>>

\* Option<T> of a string-like T (a char, a category, a panic message).
None == "None"

\* Option<T> of any other T: Some(x) is <<x>>, Nothing is <<>>.
Some(x) == <<x>>

Nothing == <<>>

Min(a, b) == IF a <= b THEN a ELSE b

Last(s) == s[Len(s)]

(***************************************************************************)
(* usize arithmetic.                                                       *)
(***************************************************************************)
UsizeBits == 64

UsizeLimbs == UsizeBits \div 8

RECURSIVE ToLimbs(_)
ToLimbs(n) == IF n = 0 THEN <<>> ELSE <<n % 256>> \o ToLimbs(n \div 256)

RECURSIVE Normalize(_)
Normalize(x) ==
    IF x # <<>> /\ Last(x) = 0 THEN Normalize(SubSeq(x, 1, Len(x) - 1)) ELSE x

\* The exact product of the limb number x and the integer f (f < 2^23).
RECURSIVE MulLimbs(_, _, _)
MulLimbs(x, f, carry) ==
    IF x = <<>> THEN ToLimbs(carry)
    ELSE LET p == Head(x) * f + carry
         IN  <<p % 256>> \o MulLimbs(Tail(x), f, p \div 256)

ExactMul(x, f) == Normalize(MulLimbs(x, f, 0))

\* x < y, for limb numbers without leading zeros.
RECURSIVE LimbsLess(_, _)
LimbsLess(x, y) ==
    IF Len(x) # Len(y) THEN Len(x) < Len(y)
    ELSE IF x = <<>> THEN FALSE
    ELSE IF Last(x) # Last(y) THEN Last(x) < Last(y)
    ELSE LimbsLess(SubSeq(x, 1, Len(x) - 1), SubSeq(y, 1, Len(y) - 1))

Fits(x) == Len(x) <= UsizeLimbs

\* A slip: the weights computed in 32 bits.
u32_mul(x, f) ==
    LET p == ExactMul(x, f)
    IN  [val      |-> Normalize(SubSeq(p, 1, Min(Len(p), 4))),
         overflow |-> Len(p) > 4]

\* usize `*`: the product modulo 2^UsizeBits, and whether it overflowed.
usize_mul(x, f) ==
    LET p == ExactMul(x, f)
    IN  [val      |-> Normalize(SubSeq(p, 1, Min(Len(p), UsizeLimbs))),
         overflow |-> ~Fits(p)]

(***************************************************************************)
(* GameSettings<usize>.                                                    *)
(***************************************************************************)
DEFAULT == 1000

\* The length of the default phrase (len: 60), scaled down.
DefaultLen == 2

get_word(s, word) == IF word \in DOMAIN s.words THEN s.words[word] ELSE DEFAULT

default ==
    [core          |-> DEFAULT,
     common        |-> DEFAULT * 200,
     uncommon      |-> DEFAULT * 400,
     obscure       |-> DEFAULT * 600,
     sandbox       |-> DEFAULT * 800,
     deprecated    |-> DEFAULT * 800,
     nondeprecated |-> DEFAULT,
     words         |-> <<>>,
     len           |-> DefaultLen]

(***************************************************************************)
(* The corpus: the records of words.toml.  A field that is missing, or not *)
(* of the type the code asks for (as_str, as_bool), is None / Nothing.     *)
(***************************************************************************)
Record(cat, dep, word) == [usage_category |-> cat, deprecated |-> dep, word |-> word]

GoodRecords ==
    { Record("core", Some(FALSE), Some(<<"a">>)),
      Record("core", Some(FALSE), Some(<<"a", "b">>)),
      Record("sandbox", Some(TRUE), Some(<<"b">>)) }

BadRecords ==
    { Record("core", Some(FALSE), Nothing),
      Record(None, Some(FALSE), Some(<<"b">>)),
      Record("other", Some(FALSE), Some(<<"b">>)),
      Record("core", Nothing, Some(<<"b">>)) }

\* The sequences of n distinct elements of S: a HashMap's values, in any order.
Orders(S, n) == { w \in [1..n -> S] : \A i, j \in 1..n : w[i] = w[j] => i = j }

(***************************************************************************)
(* Game::new.                                                              *)
(***************************************************************************)
JitterLo == 900

JitterHi == 1100

\* rand::random_range(JitterLo..JitterHi), sampled at its ends and its middle.
JitterSample == { JitterLo, (JitterLo + JitterHi) \div 2, JitterHi - 1 }

category_weight(s, cat) ==
    CASE cat = "core" -> s.core
      [] cat = "common" -> s.common
      [] cat = "uncommon" -> s.uncommon
      [] cat = "obscure" -> s.obscure
      [] cat = "sandbox" -> s.sandbox

deprecated_weight(s, b) == IF b THEN s.deprecated ELSE s.nondeprecated

Categories == {"core", "common", "uncommon", "obscure", "sandbox"}

\* a * b * c * d in usize, left to right; with overflow checks the first
\* overflowing multiplication panics.
product(a, b, c, d, checks) ==
    LET ab   == usize_mul(ToLimbs(a), b)
        abc  == usize_mul(ab.val, c)
        abcd == usize_mul(abc.val, d)
        over == ab.overflow \/ abc.overflow \/ abcd.overflow
    IN  [panic   |-> IF checks /\ over THEN "attempt to multiply with overflow" ELSE None,
         weight  |-> abcd.val,
         wrapped |-> over]

\* The closure of sort_by_cached_key, for one record and one drawn jitter.
sort_key(s, toml, jitter, checks) ==
    IF toml.usage_category = None
      THEN [panic |-> "failed to get category", weight |-> <<>>, wrapped |-> FALSE, jitter |-> jitter]
    ELSE IF toml.usage_category \notin Categories
      THEN [panic |-> "not yet implemented", weight |-> <<>>, wrapped |-> FALSE, jitter |-> jitter]
    ELSE IF toml.deprecated = Nothing
      THEN [panic |-> "failed to get deprecation", weight |-> <<>>, wrapped |-> FALSE, jitter |-> jitter]
    ELSE IF toml.word = Nothing
      THEN [panic |-> "failed to get word field", weight |-> <<>>, wrapped |-> FALSE, jitter |-> jitter]
    ELSE LET p == product(category_weight(s, toml.usage_category),
                          deprecated_weight(s, toml.deprecated[1]),
                          get_word(s, toml.word[1]), jitter, checks)
         IN  [panic |-> p.panic, weight |-> p.weight, wrapped |-> p.wrapped, jitter |-> jitter]

\* The keys sort_by_cached_key computes: none for a slice shorter than 2 (it
\* returns at once), else one per element, in order.
cached_keys(s, W, jit, checks) ==
    IF Len(W) < 2 THEN <<>>
    ELSE [k \in 1..Len(W) |-> sort_key(s, W[k], jit[k], checks)]

\* The panic of the first key computation that fails, if any.
keys_panic(ks) ==
    IF \A k \in 1..Len(ks) : ks[k].panic = None THEN None
    ELSE ks[CHOOSE k \in 1..Len(ks) :
                /\ ks[k].panic # None
                /\ \A m \in 1..(k - 1) : ks[m].panic = None].panic

\* The keys computed before the first panic (all of them when none panics).
completed_keys(ks) ==
    IF keys_panic(ks) = None THEN ks
    ELSE SubSeq(ks, 1, (CHOOSE k \in 1..Len(ks) :
                          /\ ks[k].panic # None
                          /\ \A m \in 1..(k - 1) : ks[m].panic = None) - 1)

\* A slip: the comparison is inverted, so the largest key comes first.
rank_descending(ks, k) ==
    1 + Cardinality({ m \in 1..Len(ks) :
                        \/ LimbsLess(ks[k].weight, ks[m].weight)
                        \/ ks[m].weight = ks[k].weight /\ m < k })

\* The place of element k after sorting by (key, index).
rank(ks, k) ==
    1 + Cardinality({ m \in 1..Len(ks) :
                        \/ LimbsLess(ks[m].weight, ks[k].weight)
                        \/ ks[m].weight = ks[k].weight /\ m < k })

sort_by_cached_key(W, ks) ==
    IF Len(W) < 2 THEN W
    ELSE [p \in 1..Len(W) |-> W[CHOOSE k \in 1..Len(W) : rank(ks, k) = p]]

\* A slip: the sorted list is not cut to the requested length.
truncate_forgotten(W, len) == W

truncate(W, len) == SubSeq(W, 1, Min(len, Len(W)))

\* words.iter().filter_map(|word| word.get("word")).filter_map(as_str)
word_iter(W) ==
    LET has(toml) == toml.word # Nothing
        kept == SelectSeq(W, has)
    IN  [k \in 1..Len(kept) |-> kept[k].word[1]]

\* target: the first word, then a space and a word for every further one.
RECURSIVE join(_)
join(ws) ==
    IF Len(ws) = 1 THEN ws[1]
    ELSE join(SubSeq(ws, 1, Len(ws) - 1)) \o <<" ">> \o Last(ws)

NoCall == [at |-> "idle", targ |-> 1, inpt |-> 1, chars |-> <<>>, next |-> 1]

NoFrame == [spans |-> <<>>, word_1 |-> Nothing, word_2 |-> Nothing, drawn |-> FALSE]

\* Game::new up to the end of sort_by_cached_key (lines 114-149).
SortWords ==
    /\ pc = "new"
    /\ \E jit \in [1..Len(WORDS) -> JitterSample] :
         LET ks == cached_keys(settings, WORDS, jit, overflow_checks)
         IN  /\ keys' = completed_keys(ks)
             /\ IF keys_panic(ks) # None
                  THEN /\ pc' = "panicked"
                       /\ panic' = keys_panic(ks)
                       /\ words' = words
                  ELSE /\ pc' = "sorted"
                       /\ panic' = panic
                       /\ words' = sort_by_cached_key(WORDS, ks)
    /\ UNCHANGED <<WORDS, settings, overflow_checks, key_log, target, input, spans,
                   frame, cs>>

\* A slip: an empty iterator gives an empty target instead of a panic.
build_target_or_default(ws) ==
    [panic |-> None, target |-> IF ws = <<>> THEN <<>> ELSE join(ws)]

\* The target built from the iterator: iter.next().expect(..), then the rest.
build_target(ws) ==
    IF ws = <<>> THEN [panic |-> "words list was empty", target |-> <<>>]
    ELSE [panic |-> None, target |-> join(ws)]

\* Game::new from truncate to the construction of Self (lines 151-172).
BuildGame ==
    /\ pc = "sorted"
    /\ LET kept  == truncate(words, settings.len)
           built == build_target(word_iter(kept))
       IN  IF built.panic # None
             THEN /\ pc' = "panicked"
                  /\ panic' = built.panic
                  /\ UNCHANGED <<words, key_log, target, input, spans>>
             ELSE /\ pc' = "read"
                  /\ panic' = panic
                  /\ words' = kept
                  /\ key_log' = <<>>
                  /\ target' = built.target
                  /\ input' = <<>>
                  /\ spans' = <<>>
    /\ keys' = <<>>
    /\ UNCHANGED <<WORDS, settings, overflow_checks, frame, cs>>

(***************************************************************************)
(* Game::calculate_spans.                                                  *)
(***************************************************************************)
\* Peekable::peek at position k of a string.
peek(str, k) == IF k <= Len(str) THEN str[k] ELSE None

\* A slip: the Wrong arm is tried before the Overflow arm.
arm_wrong_first(t, i) ==
    IF t # None /\ i # None /\ t = i THEN "Correct"
    ELSE IF t # None /\ i = " " THEN "Skipped"
    ELSE IF t # None /\ i # None THEN "Wrong"
    ELSE IF (t = " " \/ t = None) /\ i # None THEN "Overflow"
    ELSE IF t # None /\ i = None THEN "Hidden"
    ELSE "break"

\* A slip: the Skipped arm is tried before the Correct arm.
arm_skipped_first(t, i) ==
    IF t # None /\ i = " " THEN "Skipped"
    ELSE IF t # None /\ i # None /\ t = i THEN "Correct"
    ELSE IF (t = " " \/ t = None) /\ i # None THEN "Overflow"
    ELSE IF t # None /\ i # None THEN "Wrong"
    ELSE IF t # None /\ i = None THEN "Hidden"
    ELSE "break"

\* The arm of the classification match taken for the peeked pair (t, i).
arm(t, i) ==
    IF t # None /\ i # None /\ t = i THEN "Correct"
    ELSE IF t # None /\ i = " " THEN "Skipped"
    ELSE IF (t = " " \/ t = None) /\ i # None THEN "Overflow"
    ELSE IF t # None /\ i # None THEN "Wrong"
    ELSE IF t # None /\ i = None THEN "Hidden"
    ELSE "break"

\* A slip: the Hidden arm shows the target character.
hidden_char_revealed(t) == t

hidden_char(t) == IF t = " " THEN " " ELSE "_"

GameSpan(class, v) == [class |-> class, v |-> v]

\* A slip: the Correct arm forgets inpt.next().
correct_arm_input_kept(c, t, i) ==
    [c EXCEPT !.chars = Append(@, GameSpan("Correct", t)), !.targ = @ + 1]

\* The bodies of the arms: what is pushed, and which cursors advance.
correct_arm(c, t, i) ==
    [c EXCEPT !.chars = Append(@, GameSpan("Correct", t)), !.targ = @ + 1, !.inpt = @ + 1]

\* A slip: the Skipped arm forgets targ.next().
skipped_arm_stuck(c, t, i) ==
    [c EXCEPT !.chars = Append(@, GameSpan("Skipped", t))]

skipped_arm(c, t, i) ==
    [c EXCEPT !.chars = Append(@, GameSpan("Skipped", t)), !.targ = @ + 1]

\* A slip: a character typed past the target is classified Wrong.
overflow_arm_as_wrong(c, t, i) ==
    [c EXCEPT !.chars = Append(@, GameSpan("Wrong", i)), !.inpt = @ + 1]

\* A slip: the Overflow arm also advances the target cursor.
overflow_arm_consuming(c, t, i) ==
    [c EXCEPT !.chars = Append(@, GameSpan("Overflow", i)), !.targ = @ + 1, !.inpt = @ + 1]

overflow_arm(c, t, i) ==
    [c EXCEPT !.chars = Append(@, GameSpan("Overflow", i)), !.inpt = @ + 1]

\* A slip: the Wrong arm pushes the typed character instead of the target's.
wrong_arm_typed(c, t, i) ==
    [c EXCEPT !.chars = Append(@, GameSpan("Wrong", i)), !.targ = @ + 1, !.inpt = @ + 1]

wrong_arm(c, t, i) ==
    [c EXCEPT !.chars = Append(@, GameSpan("Wrong", t)), !.targ = @ + 1, !.inpt = @ + 1]

\* A slip: the Hidden arm pushes the target character itself.
hidden_arm_revealing(c, t, i) ==
    [c EXCEPT !.chars = Append(@, GameSpan("Hidden", t)), !.targ = @ + 1]

hidden_arm(c, t, i) ==
    [c EXCEPT !.chars = Append(@, GameSpan("Hidden", hidden_char(t))), !.targ = @ + 1]

\* One iteration of the classification loop that does not break.
classify_step(tgt, inp, c) ==
    LET t == peek(tgt, c.targ)
        i == peek(inp, c.inpt)
        a == arm(t, i)
    IN  CASE a = "Correct" -> correct_arm(c, t, i)
          [] a = "Skipped" -> skipped_arm(c, t, i)
          [] a = "Overflow" -> overflow_arm(c, t, i)
          [] a = "Wrong" -> wrong_arm(c, t, i)
          [] a = "Hidden" -> hidden_arm(c, t, i)

classify_breaks(tgt, inp, c) == arm(peek(tgt, c.targ), peek(inp, c.inpt)) = "break"

RECURSIVE classify_loop(_, _, _)
classify_loop(tgt, inp, c) ==
    IF classify_breaks(tgt, inp, c) THEN c.chars
    ELSE classify_loop(tgt, inp, classify_step(tgt, inp, c))

\* A slip: self.spans.clear() is left out.
clear_forgotten(self_spans) == self_spans

\* self.spans.clear()
clear(self_spans) == <<>>

\* A slip: every classified character starts a span of its own.
merge_step_unmerged(self_spans, c_span) ==
    Append(self_spans, GameSpan(c_span.class, <<c_span.v>>))

\* One iteration of the merge loop: c_span joins the last span when it has the
\* same class, else starts a new span.
merge_step(self_spans, c_span) ==
    IF self_spans # <<>> /\ Last(self_spans).class = c_span.class
      THEN [self_spans EXCEPT ![Len(self_spans)].v = Append(@, c_span.v)]
      ELSE Append(self_spans, GameSpan(c_span.class, <<c_span.v>>))

RECURSIVE merge_loop(_, _, _)
merge_loop(self_spans, chars, next) ==
    IF next > Len(chars) THEN self_spans
    ELSE merge_loop(merge_step(self_spans, chars[next]), chars, next + 1)

Call == [at |-> "classify", targ |-> 1, inpt |-> 1, chars |-> <<>>, next |-> 1]

calculate_spans(self_spans, tgt, inp) ==
    merge_loop(clear(self_spans), classify_loop(tgt, inp, Call), 1)

\* calculate_spans, one loop iteration at a time.
ClassifyIter ==
    /\ pc = "diff"
    /\ cs.at = "classify"
    /\ ~classify_breaks(target, input, cs)
    /\ cs' = classify_step(target, input, cs)
    /\ UNCHANGED <<WORDS, settings, overflow_checks, pc, panic, keys, words, key_log,
                   target, input, spans, frame>>

ClassifyBreak ==
    /\ pc = "diff"
    /\ cs.at = "classify"
    /\ classify_breaks(target, input, cs)
    /\ spans' = clear(spans)
    /\ cs' = [cs EXCEPT !.at = "merge"]
    /\ UNCHANGED <<WORDS, settings, overflow_checks, pc, panic, keys, words, key_log,
                   target, input, frame>>

MergeIter ==
    /\ pc = "diff"
    /\ cs.at = "merge"
    /\ cs.next <= Len(cs.chars)
    /\ spans' = merge_step(spans, cs.chars[cs.next])
    /\ cs' = [cs EXCEPT !.next = @ + 1]
    /\ UNCHANGED <<WORDS, settings, overflow_checks, pc, panic, keys, words, key_log,
                   target, input, frame>>

MergeBreak ==
    /\ pc = "diff"
    /\ cs.at = "merge"
    /\ cs.next > Len(cs.chars)
    /\ cs' = [cs EXCEPT !.at = "done"]
    /\ UNCHANGED <<WORDS, settings, overflow_checks, pc, panic, keys, words, key_log,
                   target, input, spans, frame>>

(***************************************************************************)
(* Events, Game::crossterm_event, Game::draw_game_ratatui and main.        *)
(***************************************************************************)
\* The longest key log followed.
MaxKeys == 4

KeyCode(kind, c) == [kind |-> kind, c |-> c]

Key(code, modifiers) == [type |-> "Key", code |-> code, modifiers |-> modifiers]

TypedChars == {"a", "b", " "}

Events ==
    { Key(KeyCode("Char", c), "NONE") : c \in TypedChars }
      \cup { Key(KeyCode("Char", "a"), "CONTROL"),
             Key(KeyCode("Char", "c"), "CONTROL"),
             Key(KeyCode("Char", "d"), "CONTROL"),
             Key(KeyCode("Esc", None), "NONE"),
             Key(KeyCode("Esc", None), "CONTROL"),
             Key(KeyCode("Backspace", None), "NONE"),
             Key(KeyCode("Enter", None), "NONE"),
             [type |-> "Mouse", code |-> KeyCode(None, None), modifiers |-> "NONE"] }

\* A slip: only Esc leaves the loop.
is_quit_esc_only(event) == event.type = "Key" /\ event.code.kind = "Esc"

\* The pattern main matches to leave the loop (lines 365-374).
is_quit(event) ==
    /\ event.type = "Key"
    /\ \/ event.code.kind = "Esc"
       \/ /\ event.code.kind = "Char"
          /\ event.code.c \in {"c", "d"}
          /\ event.modifiers = "CONTROL"

\* A slip: Backspace leaves the input as it is.
pop_nothing(str) == str

\* String::pop
pop(str) == IF str = <<>> THEN str ELSE SubSeq(str, 1, Len(str) - 1)

input_after(inp, event) ==
    IF event.type # "Key" THEN inp
    ELSE IF event.code.kind = "Char" THEN Append(inp, event.code.c)
    ELSE IF event.code.kind = "Backspace" THEN pop(inp)
    ELSE inp

key_log_after(log, event) ==
    IF event.type = "Key" THEN Append(log, event.code) ELSE log

crossterm_event(event) ==
    /\ key_log' = key_log_after(key_log, event)
    /\ input' = input_after(input, event)
    /\ spans' = calculate_spans(spans, target, input')

\* str::split_whitespace
RECURSIVE split_whitespace(_)
split_whitespace(str) ==
    IF str = <<>> THEN <<>>
    ELSE IF Head(str) = " " THEN split_whitespace(Tail(str))
    ELSE LET stop == IF \E k \in 1..Len(str) : str[k] = " "
                       THEN (CHOOSE k \in 1..Len(str) :
                               str[k] = " " /\ \A m \in 1..(k - 1) : str[m] # " ") - 1
                       ELSE Len(str)
         IN  <<SubSeq(str, 1, stop)>> \o split_whitespace(SubSeq(str, stop + 1, Len(str)))

current_index(inp) == Cardinality({ k \in 1..Len(inp) : inp[k] = " " })

ends_with_space(inp) == inp # <<>> /\ Last(inp) = " "

\* Iterator::nth(n), and the next() after it, on the words of the target.
nth(ws, n) == IF n + 1 <= Len(ws) THEN Some(ws[n + 1]) ELSE Nothing

next_after_nth(ws, n) == IF n + 2 <= Len(ws) THEN Some(ws[n + 2]) ELSE Nothing

word_index(inp) ==
    IF ends_with_space(inp) THEN current_index(inp)
    ELSE IF current_index(inp) >= 1 THEN current_index(inp) - 1 ELSE 0

word_1(tgt, inp) == nth(split_whitespace(tgt), word_index(inp))

word_2(tgt, inp) == next_after_nth(split_whitespace(tgt), word_index(inp))

\* The game loop reads a quit event and breaks.
Quit ==
    /\ pc = "read"
    /\ \E event \in Events : is_quit(event)
    /\ pc' = "quit"
    /\ UNCHANGED <<WORDS, settings, overflow_checks, panic, keys, words, key_log,
                   target, input, spans, frame, cs>>

\* The game loop reads any other event and hands it to crossterm_event.
HandleEvent ==
    /\ pc = "read"
    /\ \E event \in Events :
         /\ ~is_quit(event)
         /\ event.type = "Key" => Len(key_log) < MaxKeys
         /\ crossterm_event(event)
    /\ pc' = "draw"
    /\ UNCHANGED <<WORDS, settings, overflow_checks, panic, keys, words, target,
                   frame, cs>>

Draw ==
    /\ pc = "draw"
    /\ frame' = [spans  |-> spans,
                 word_1 |-> word_1(target, input),
                 word_2 |-> word_2(target, input),
                 drawn  |-> TRUE]
    /\ pc' = "read"
    /\ UNCHANGED <<WORDS, settings, overflow_checks, panic, keys, words, key_log,
                   target, input, spans, cs>>

(***************************************************************************)
(* The program: main builds the game from the default settings and the     *)
(* built-in corpus, then runs the game loop.                               *)
(***************************************************************************)
Init ==
    /\ WORDS \in UNION { Orders(GoodRecords, n) : n \in 1..Cardinality(GoodRecords) }
    /\ settings = default
    /\ overflow_checks \in BOOLEAN
    /\ pc = "new"
    /\ panic = None
    /\ keys = <<>>
    /\ words = <<>>
    /\ key_log = <<>>
    /\ target = <<>>
    /\ input = <<>>
    /\ spans = <<>>
    /\ frame = NoFrame
    /\ cs = NoCall

Next == SortWords \/ BuildGame \/ Quit \/ HandleEvent \/ Draw

Spec == Init /\ [][Next]_vars

(***************************************************************************)
(* Game::new as a function of its settings and of the corpus.              *)
(***************************************************************************)
\* The largest corpus and the longest requested phrase tried.
MaxCorpus == 2

MaxLen == 3

\* A weight whose products overflow usize.
Huge == 2 ^ 22

SettingsWeights ==
    { default,
      [default EXCEPT !.core = 0],
      [default EXCEPT !.words = (<<"a", "b">> :> 1)],
      [default EXCEPT !.core = Huge, !.nondeprecated = Huge, !.words = (<<"a">> :> Huge)] }

SettingsSet == { [s EXCEPT !.len = n] : s \in SettingsWeights, n \in 0..MaxLen }

InitNew ==
    /\ WORDS \in UNION { Orders(GoodRecords \cup BadRecords, n) : n \in 0..MaxCorpus }
    /\ settings \in SettingsSet
    /\ overflow_checks \in BOOLEAN
    /\ pc = "new"
    /\ panic = None
    /\ keys = <<>>
    /\ words = <<>>
    /\ key_log = <<>>
    /\ target = <<>>
    /\ input = <<>>
    /\ spans = <<>>
    /\ frame = NoFrame
    /\ cs = NoCall

NextNew == SortWords \/ BuildGame

SpecNew == InitNew /\ [][NextNew]_vars

(***************************************************************************)
(* calculate_spans as a function of the target, the input and the spans    *)
(* left by the previous call.                                              *)
(***************************************************************************)
\* The longest target and input tried, beside the examples.
MaxStr == 3

Strings(n) == UNION { [1..k -> TypedChars] : k \in 0..n }

toki_pona == <<"t", "o", "k", "i", " ", "p", "o", "n", "a">>

toki_pan == <<"t", "o", "k", "i", " ", "p", "a", "n">>

mi == <<"m", "i">>

mix == <<"m", "i", "x">>

InitDiff ==
    /\ target \in Strings(MaxStr) \cup {toki_pona, mi}
    /\ input \in Strings(MaxStr) \cup {toki_pan, mix}
    /\ spans \in {<<>>, <<GameSpan("Hidden", <<"_", "_">>)>>}
    /\ pc = "diff"
    /\ cs = Call
    /\ WORDS = <<>>
    /\ settings = default
    /\ overflow_checks = FALSE
    /\ panic = None
    /\ keys = <<>>
    /\ words = <<>>
    /\ key_log = <<>>
    /\ frame = NoFrame

NextDiff == ClassifyIter \/ ClassifyBreak \/ MergeIter \/ MergeBreak

\* The loops are sequential code: a loop that can take a step takes it.
SpecDiff == InitDiff /\ [][NextDiff]_vars /\ WF_vars(NextDiff)

(***************************************************************************)
(* Properties of the stored spans.                                         *)
(***************************************************************************)
\* calculate_spans has run on the current target and input.
SpansComputed == pc = "draw" \/ (pc \in {"read", "quit"} /\ frame.drawn)

\* The classified characters of a span sequence, one entry per character.
RECURSIVE Flatten(_)
Flatten(sp) ==
    IF sp = <<>> THEN <<>>
    ELSE [k \in 1..Len(Head(sp).v) |-> GameSpan(Head(sp).class, Head(sp).v[k])]
           \o Flatten(Tail(sp))

TargetDerived == {"Correct", "Wrong", "Skipped", "Hidden"}

TargetSide(sp) ==
    LET derived(e) == e.class \in TargetDerived
    IN  SelectSeq(Flatten(sp), derived)

Text(es) == [k \in 1..Len(es) |-> es[k].v]

\* C1 as stated: the texts of the Correct, Wrong, Skipped and Hidden spans,
\* concatenated in order, are the target phrase, character for character.
C1_ConcatIsTarget == SpansComputed => Text(TargetSide(spans)) = target

\* C1, amended: the texts of the Correct, Wrong, Skipped and Hidden spans,
\* concatenated in order, have the target's length and agree with the target at
\* every Correct, Wrong and Skipped position; at a Hidden position they hold the
\* target's space, or '_' in place of a target character that is not a space.
C1_ConcatIsMaskedTarget ==
    SpansComputed =>
        LET ts == TargetSide(spans)
        IN  /\ Len(ts) = Len(target)
            /\ \A k \in 1..Len(ts) :
                 ts[k].v = IF ts[k].class # "Hidden" THEN target[k]
                           ELSE IF target[k] = " " THEN " " ELSE "_"

C1_Witness ==
    /\ SpansComputed
    /\ \A class \in {"Wrong", "Overflow", "Hidden"} :
         \E k \in 1..Len(spans) : spans[k].class = class
    /\ \E k \in 1..Len(spans) : spans[k].class = "Hidden" /\ "_" \in { spans[k].v[m] : m \in 1..Len(spans[k].v) }

\* C2: after calculate_spans no two adjacent stored spans carry the same class,
\* and no stored span has an empty text.
C2_MaximalRuns ==
    SpansComputed =>
        \A k \in 1..Len(spans) :
            /\ spans[k].v # <<>>
            /\ k < Len(spans) => spans[k].class # spans[k + 1].class

C2_Witness ==
    /\ SpansComputed
    /\ Len(spans) >= 3
    /\ \E k \in 1..Len(spans) : Len(spans[k].v) >= 2

(***************************************************************************)
(* Properties of Game::new.                                                *)
(***************************************************************************)
\* Game::new has returned a session or has aborted.
Finished == pc \in {"read", "panicked"}

\* The number of corpus entries that have a word.
Eligible(W) == Cardinality({ k \in 1..Len(W) : W[k].word # Nothing })

\* The number of space-separated words of a phrase.
WordCount(str) ==
    IF str = <<>> THEN 0 ELSE 1 + Cardinality({ k \in 1..Len(str) : str[k] = " " })

Malformed(toml) ==
    \/ toml.usage_category \notin Categories
    \/ toml.deprecated = Nothing
    \/ toml.word = Nothing

\* The three weights of a well-formed record, read off the settings.
Factors(s, toml) ==
    [c |-> category_weight(s, toml.usage_category),
     d |-> deprecated_weight(s, toml.deprecated[1]),
     w |-> IF toml.word[1] \in DOMAIN s.words THEN s.words[toml.word[1]] ELSE 1000]

\* The exact product c * d * w * j, without a machine width.
Exact(f, j) == ExactMul(ExactMul(ExactMul(ToLimbs(f.c), f.d), f.w), j)

C8_MissingWordSkipped ==
    ( /\ Finished
      /\ \E k \in 1..Len(WORDS) : WORDS[k].word = Nothing
      /\ \E k \in 1..Len(WORDS) : WORDS[k].word # Nothing
      /\ \A k \in 1..Len(WORDS) :
           WORDS[k].usage_category \in Categories /\ WORDS[k].deprecated # Nothing
      /\ settings.len >= Len(WORDS)
      /\ settings \in { [default EXCEPT !.len = n] : n \in 0..(MaxLen + 1) } )
    => /\ pc = "read"
       /\ WordCount(target) = Eligible(WORDS)

C10_WeightAlways ==
    /\ panic # "attempt to multiply with overflow"
    /\ \A k \in 1..Len(keys) :
         /\ keys[k].weight # <<>>
         /\ ~keys[k].wrapped
         /\ keys[k].jitter \in 900..1100
         /\ keys[k].weight = Exact(Factors(settings, WORDS[k]), keys[k].jitter)

\* The weights of a record are at least 1 and their product with the largest
\* jitter fits 64 bits.
InRange(f) == f.c >= 1 /\ f.d >= 1 /\ f.w >= 1 /\ Len(Exact(f, 1099)) <= 8

\* C10, amended: for every record whose three weights under the settings are
\* at least 1 and whose product with 1099 is below 2^64 (all records under the
\* default settings), the computed weight is strictly positive, equals the
\* exact product of the three weights and a jitter within 900..1099, and did
\* not wrap; the overflow panic arises only from a record outside that range.
C10_WeightInRange ==
    /\ \A k \in 1..Len(keys) :
         InRange(Factors(settings, WORDS[k])) =>
             /\ keys[k].weight # <<>>
             /\ ~keys[k].wrapped
             /\ keys[k].jitter \in 900..1099
             /\ keys[k].weight = Exact(Factors(settings, WORDS[k]), keys[k].jitter)
    /\ panic = "attempt to multiply with overflow" =>
         \E k \in 1..Len(WORDS) :
             ~Malformed(WORDS[k]) /\ ~InRange(Factors(settings, WORDS[k]))

C10_Witness ==
    /\ pc = "sorted"
    /\ settings.sandbox = 800000
    /\ settings.deprecated = 800000
    /\ \E k \in 1..Len(keys) :
         /\ WORDS[k].usage_category = "sandbox"
         /\ keys[k].jitter = 1099
         /\ keys[k].weight = Exact([c |-> 800000, d |-> 800000, w |-> 1000], 1099)
         /\ InRange(Factors(settings, WORDS[k]))

(***************************************************************************)
(* Properties of calculate_spans as a function.                            *)
(***************************************************************************)
Done == pc = "diff" /\ cs.at = "done"

TokiPonaCase == Done /\ target = toki_pona /\ input = toki_pan

\* C4 as stated: target "toki pona" and input "toki pan" give
\* Correct("toki "), Correct("pan"), Hidden("_").
C4_TokiPonaAsStated ==
    TokiPonaCase =>
        spans = << GameSpan("Correct", <<"t", "o", "k", "i", " ">>),
                   GameSpan("Correct", <<"p", "a", "n">>),
                   GameSpan("Hidden", <<"_">>) >>

\* C4, amended: target "toki pona" and input "toki pan" give
\* Correct("toki p"), Wrong("o"), Correct("n"), Hidden("_"): 7 of the 9 target
\* characters are Correct, the 'o' typed as 'a' is Wrong, the last is Hidden.
C4_TokiPona ==
    TokiPonaCase =>
        /\ spans = << GameSpan("Correct", <<"t", "o", "k", "i", " ", "p">>),
                      GameSpan("Wrong", <<"o">>),
                      GameSpan("Correct", <<"n">>),
                      GameSpan("Hidden", <<"_">>) >>
        /\ Cardinality({ k \in 1..Len(cs.chars) : cs.chars[k].class = "Correct" }) = 7

C4_Witness == TokiPonaCase /\ Len(spans) = 4

\* The entries among the first n classified characters with a class in S.
CountIn(chars, n, S) == Cardinality({ k \in 1..n : chars[k].class \in S })

InputSide == {"Correct", "Wrong", "Overflow"}

\* C5: target "mi" and input "mix" give Correct("mi"), Overflow("x"); and a
\* character classified once the target is exhausted is Overflow and carries
\* the input character at the input cursor, all input being classified at the end.
C5_OverflowPastTarget ==
    /\ (Done /\ target = mi /\ input = mix) =>
           spans = << GameSpan("Correct", <<"m", "i">>), GameSpan("Overflow", <<"x">>) >>
    /\ pc = "diff" =>
         \A k \in 1..Len(cs.chars) :
             CountIn(cs.chars, k - 1, TargetDerived) = Len(target) =>
                 cs.chars[k] = GameSpan("Overflow",
                                        input[CountIn(cs.chars, k - 1, InputSide) + 1])
    /\ Done => CountIn(cs.chars, Len(cs.chars), InputSide) = Len(input)

C5_Witness == Done /\ target = mi /\ input = mix /\ Len(spans) = 2

\* C6: calculate_spans terminates on every target and input: every iteration
\* of the classification loop consumes a character of the target or of the
\* input, every iteration of the merge loop consumes one classified character,
\* the call reaches its end without a panic, and with both strings empty the
\* stored spans are empty.
C6_Terminates ==
    /\ <>Done
    /\ [][ /\ (cs.at = "classify" /\ cs' # cs /\ cs'.at = "classify") =>
                /\ cs'.targ + cs'.inpt > cs.targ + cs.inpt
                /\ cs'.targ <= Len(target) + 1
                /\ cs'.inpt <= Len(input) + 1
           /\ (cs.at = "merge" /\ cs' # cs /\ cs'.at = "merge") =>
                /\ cs'.next = cs.next + 1
                /\ cs'.next <= Len(cs.chars) + 1 ]_vars
    /\ [](panic = None)
    /\ []((Done /\ target = <<>> /\ input = <<>>) => spans = <<>>)

C6_Witness == Done /\ target = <<>> /\ Len(input) = MaxStr /\ Len(spans) = 1

(***************************************************************************)
(* Properties of the event handler.                                        *)
(***************************************************************************)
\* C7: running calculate_spans again on an unchanged target and input leaves
\* the stored spans as they were: an event that is no key event, or a key that
\* is neither a character nor Backspace (or Backspace on an empty input),
\* handled after the spans were computed, does not change them.
C7_Idempotent ==
    [][ (SpansComputed /\ pc = "read" /\ pc' = "draw" /\ input' = input)
          => spans' = spans ]_vars

C7_Witness ==
    /\ pc = "draw"
    /\ frame.drawn
    /\ frame.spans = spans
    /\ Len(spans) >= 2
    /\ key_log # <<>>
    /\ Last(key_log).kind = "Enter"

(***************************************************************************)
(* Properties of the selection made by Game::new.                          *)
(***************************************************************************)
\* The place in the corpus iteration of the record at place p of the sorted list.
CorpusIndex(p) == CHOOSE k \in 1..Len(WORDS) : WORDS[k] = words[p]

\* The sorted list holds every record of the corpus once, in ascending order
\* of the computed key, records of equal key in the order of the corpus.
AscendingStable ==
    /\ Len(words) = Len(WORDS)
    /\ \A k \in 1..Len(WORDS) : \E p \in 1..Len(words) : words[p] = WORDS[k]
    /\ \A p, q \in 1..Len(words) :
         p < q =>
           LET a == CorpusIndex(p)
               b == CorpusIndex(q)
           IN  /\ ~LimbsLess(keys[b].weight, keys[a].weight)
               /\ keys[a].weight = keys[b].weight => a < b

\* The number of spaces of a phrase.
Spaces(str) == Cardinality({ k \in 1..Len(str) : str[k] = " " })

\* C11: the target is built from the len records of lowest computed weight,
\* in ascending order of weight and joined by single spaces: the sorted list
\* is the corpus in ascending order of the keys, records of equal key keeping
\* the order of the corpus iteration (stable sort); the records kept are the
\* first len of it, so no kept record weighs more than one left out; and the
\* target holds their words in that order with one space between neighbours.
C11_LowestWeightsAscending ==
    /\ []((pc = "sorted" /\ Len(WORDS) >= 2) => AscendingStable)
    /\ [][ (pc = "sorted" /\ pc' = "read") =>
             /\ words' = SubSeq(words, 1, Min(settings.len, Len(words)))
             /\ split_whitespace(target') = [k \in 1..Len(words') |-> words'[k].word[1]]
             /\ Spaces(target') = Len(words') - 1
             /\ target'[1] # " "
             /\ Last(target') # " " ]_vars

\* A corpus of two records sorted into the other order, of which one is kept.
C11_Witness ==
    /\ pc = "sorted"
    /\ Len(WORDS) = 2
    /\ settings.len = 1
    /\ words # WORDS
    /\ AscendingStable

\* Two records of equal key, left in the order of the corpus.
C11_TieWitness ==
    /\ pc = "sorted"
    /\ Len(keys) = 2
    /\ keys[1].weight = keys[2].weight
    /\ words = WORDS

(***************************************************************************)
(* Properties of the game loop.                                            *)
(***************************************************************************)
\* The key codes of the quit events: Esc, and the c and d of Ctrl-c and Ctrl-d
\* (no other event of Events carries them).
QuitCode(code) == code.kind = "Esc" \/ (code.kind = "Char" /\ code.c \in {"c", "d"})

\* C12: a quit key event (Esc, Ctrl-c, Ctrl-d) ends the loop in the iteration
\* that reads it: its code never enters the key log and its character never
\* enters the input, the step that leaves the loop starts from the read and
\* changes neither key log, input, spans nor frame, and nothing happens after
\* it; every other event read is handled without drawing and is followed by
\* one render of the spans just computed, which returns to the read.
C12_QuitEndsLoop ==
    /\ [](\A k \in 1..Len(key_log) : ~QuitCode(key_log[k]))
    /\ [](\A k \in 1..Len(input) : input[k] \notin {"c", "d"})
    /\ [][ pc' = "quit" =>
             pc = "read" /\ UNCHANGED <<key_log, input, spans, target, frame>> ]_vars
    /\ [][ pc # "quit" ]_vars
    /\ [][ (pc = "read" /\ pc' # "quit") => (pc' = "draw" /\ frame' = frame) ]_vars
    /\ [][ pc = "draw" =>
             /\ pc' = "read"
             /\ frame'.drawn
             /\ frame'.spans = spans
             /\ UNCHANGED <<key_log, input, spans, target>> ]_vars

\* The loop was left after some keys were handled and drawn.
C12_Witness ==
    /\ pc = "quit"
    /\ frame.drawn
    /\ frame.spans = spans
    /\ Len(key_log) >= 2
    /\ input # <<>>

(***************************************************************************)
(* Properties of the session's timestamps.  Game keeps no instant but      *)
(* those of key_log, one Instant::now() per key event, in the order of the *)
(* log: the instant of entry k is later than that of entry k - 1.          *)
(***************************************************************************)
\* The phrase is completed: the input has reached the target's length, or the
\* computed spans leave nothing of the target hidden (a space typed in the
\* final word closes it).
Completed ==
    /\ pc \in {"read", "draw"}
    /\ \/ Len(input) >= Len(target)
       \/ /\ SpansComputed
          /\ \A k \in 1..Len(spans) : spans[k].class # "Hidden"

\* C13 as stated: the session records a start instant on the first accepted
\* keystroke and an end instant when the phrase is completed, and the end
\* instant, once set, does not change.  The instants the session holds are
\* those of the key log, so the end instant is the latest of them: once the
\* phrase is completed the key log holds an instant and receives no later one.
C13_EndInstantFixed ==
    [][ Completed => (key_log # <<>> /\ key_log' = key_log) ]_vars

(***************************************************************************)
(* Properties of the input buffer and of the stored spans.                 *)
(***************************************************************************)
\* The spans of a target and an input, computed with no spans stored before.
FromScratch(tgt, inp) == merge_loop(<<>>, classify_loop(tgt, inp, Call), 1)

BackspaceKey == Key(KeyCode("Backspace", None), "NONE")

CharKey(c) == Key(KeyCode("Char", c), "NONE")

\* C14: after any sequence of handled events the stored spans are the spans
\* computed from the target and the current input alone; no event changes the
\* target; a character key appends exactly its character to the input,
\* Backspace removes the last character (nothing from an empty input) and any
\* other event leaves the input alone; and a character pushed and then removed
\* by Backspace gives back the input and the spans held before.
C14_SpansFromInput ==
    /\ [](SpansComputed => spans = FromScratch(target, input))
    /\ [][ (pc \in {"read", "draw", "quit"}) => (target' = target) ]_vars
    /\ [][ (pc = "read" /\ pc' = "draw") =>
             IF key_log' = key_log THEN input' = input
             ELSE LET code == Last(key_log')
                  IN  /\ key_log' = Append(key_log, code)
                      /\ code.kind = "Char" => input' = Append(input, code.c)
                      /\ code.kind = "Backspace" =>
                            /\ input = <<>> => input' = <<>>
                            /\ input # <<>> => Append(input', Last(input)) = input
                      /\ code.kind \notin {"Char", "Backspace"} => input' = input ]_vars
    /\ []((pc = "read" /\ SpansComputed) =>
            \A c \in TypedChars :
               LET pushed == input_after(input, CharKey(c))
                   shown  == calculate_spans(spans, target, pushed)
                   back   == input_after(pushed, BackspaceKey)
               IN  /\ back = input
                   /\ calculate_spans(shown, target, back) = spans)

\* A character was typed after another and removed again by Backspace.
C14_Witness ==
    /\ pc = "draw"
    /\ Len(key_log) = 3
    /\ key_log[2].kind = "Char"
    /\ key_log[3].kind = "Backspace"
    /\ Len(input) = 1
    /\ spans = FromScratch(target, input)
    /\ Len(spans) >= 2

(***************************************************************************)
(* Properties of the classification rules, read off the list of classified *)
(* characters of a call of calculate_spans.                                *)
(***************************************************************************)
\* The target and input positions the k-th classified character was classified
\* at: one more than the target, or input, characters consumed before it.
TPos(chars, k) == 1 + CountIn(chars, k - 1, TargetDerived)

IPos(chars, k) == 1 + CountIn(chars, k - 1, InputSide)

\* The cursors stand behind the characters consumed: Correct and Wrong advance
\* both, Skipped and Hidden the target cursor only, Overflow the input cursor only.
CursorsCounted ==
    /\ cs.targ = TPos(cs.chars, Len(cs.chars) + 1)
    /\ cs.inpt = IPos(cs.chars, Len(cs.chars) + 1)

\* The pair peeked when the k-th character was classified.
TPeek(k) == peek(target, TPos(cs.chars, k))

IPeek(k) == peek(input, IPos(cs.chars, k))

\* An input space against a target non-space is Skipped with the target's
\* character, and Skipped comes from nothing else.
SkipRule(k) ==
    /\ (IPeek(k) = " " /\ TPeek(k) \notin {None, " "}) =>
           cs.chars[k] = GameSpan("Skipped", TPeek(k))
    /\ cs.chars[k].class = "Skipped" =>
           /\ IPeek(k) = " "
           /\ TPeek(k) \notin {None, " "}
           /\ TPeek(k) # IPeek(k)

Classified == pc = "diff" /\ cs.at # "classify"

\* C15 as stated: an input space against a target non-space makes the target
\* character Skipped and advances the target cursor only, so that a space
\* typed inside a word marks the remaining letters of the word Skipped and is
\* then paired with the target's own space as Correct; Skipped never comes
\* from equal characters.
C15_SkippedThenCorrectSpace ==
    pc = "diff" =>
      /\ CursorsCounted
      /\ \A k \in 1..Len(cs.chars) : SkipRule(k)
      /\ Classified =>
            \A k \in 1..Len(cs.chars) :
               cs.chars[k].class = "Skipped" =>
                 /\ k < Len(cs.chars)
                 /\ \/ cs.chars[k + 1].class = "Skipped"
                    \/ cs.chars[k + 1] = GameSpan("Correct", " ")

\* C15, amended: as above, but the space is paired with the target's own
\* space only when the target has one after the word; in the last word of
\* the target the Skipped letters exhaust the target and the space is Overflow.
C15_SkippedThenSpace ==
    pc = "diff" =>
      /\ CursorsCounted
      /\ \A k \in 1..Len(cs.chars) : SkipRule(k)
      /\ Classified =>
            \A k \in 1..Len(cs.chars) :
               cs.chars[k].class = "Skipped" =>
                 /\ k < Len(cs.chars)
                 /\ \/ cs.chars[k + 1].class = "Skipped"
                    \/ cs.chars[k + 1] = GameSpan("Correct", " ")
                    \/ /\ cs.chars[k + 1] = GameSpan("Overflow", " ")
                       /\ TPos(cs.chars, k + 1) = Len(target) + 1

\* A space typed in the first of two words: a letter Skipped, then the spaces paired.
C15_Witness ==
    /\ Done
    /\ \E k \in 1..(Len(cs.chars) - 2) :
         /\ cs.chars[k].class = "Skipped"
         /\ cs.chars[k + 1] = GameSpan("Correct", " ")
         /\ cs.chars[k + 2].class \in {"Correct", "Wrong"}

\* C16: when the target is exhausted or its next character is a space, and the
\* next input character is present and differs from it, the input character
\* is classified Overflow and only the input cursor advances, so that Overflow
\* never consumes a target character; Wrong is produced only when both
\* characters are present, differ and neither is a space, and it carries the
\* target's character.
C16_OverflowRule ==
    pc = "diff" =>
      /\ CursorsCounted
      /\ \A k \in 1..Len(cs.chars) :
           /\ (IPeek(k) # None /\ TPeek(k) \in {None, " "} /\ IPeek(k) # TPeek(k)) =>
                  cs.chars[k] = GameSpan("Overflow", IPeek(k))
           /\ cs.chars[k].class = "Overflow" =>
                  /\ TPeek(k) \in {None, " "}
                  /\ TPos(cs.chars, k + 1) = TPos(cs.chars, k)
                  /\ IPos(cs.chars, k + 1) = IPos(cs.chars, k) + 1
           /\ cs.chars[k].class = "Wrong" =>
                  /\ TPeek(k) \notin {None, " "}
                  /\ IPeek(k) \notin {None, " "}
                  /\ TPeek(k) # IPeek(k)
                  /\ cs.chars[k].v = TPeek(k)

\* A letter typed against a target space is Overflow, the space is then
\* paired, and a wrong letter follows.
C16_Witness ==
    /\ Done
    /\ \E k \in 1..(Len(cs.chars) - 2) :
         /\ cs.chars[k].class = "Overflow"
         /\ TPeek(k) = " "
         /\ cs.chars[k + 1] = GameSpan("Correct", " ")
         /\ cs.chars[k + 2].class = "Wrong"

\* The Hidden spans of a list of spans.
HiddenPart(sp) ==
    LET hidden(span) == span.class = "Hidden"
    IN  SelectSeq(sp, hidden)

\* The number of target characters classified before the input ran out.
Consumed == CountIn(cs.chars, Len(cs.chars), {"Correct", "Wrong", "Skipped"})

\* Another target of the same length, with spaces at the same positions, that
\* agrees with the target on the part the input has consumed.
SameShape(other) ==
    /\ Len(other) = Len(target)
    /\ \A k \in 1..Len(target) : (other[k] = " ") <=> (target[k] = " ")
    /\ \A k \in 1..Min(Consumed, Len(target)) : other[k] = target[k]

Targets == Strings(MaxStr) \cup {toki_pona, mi}

\* C17: Hidden spans never reveal letters not yet typed: every Hidden
\* character is classified with the input exhausted and is a space exactly
\* where the target has a space and '_' where it has any other character; so
\* the Hidden spans computed for the input are the same for every other
\* target of the same length and space positions that agrees on the part the
\* input has consumed.
C17_HiddenNeverReveals ==
    /\ pc = "diff" =>
         \A k \in 1..Len(cs.chars) :
            cs.chars[k].class = "Hidden" =>
              /\ IPeek(k) = None
              /\ TPeek(k) # None
              /\ cs.chars[k].v = IF TPeek(k) = " " THEN " " ELSE "_"
    /\ Done =>
         \A other \in Targets :
            SameShape(other) =>
              HiddenPart(FromScratch(other, input)) = HiddenPart(spans)

\* A letter typed of a target of two words: a space and a letter stay hidden,
\* and another target of the same shape differs in the hidden letter.
C17_Witness ==
    /\ Done
    /\ input # <<>>
    /\ HiddenPart(spans) = << GameSpan("Hidden", <<" ", "_">>) >>
    /\ \E other \in Targets : SameShape(other) /\ other # target

(***************************************************************************)
(* Properties of the rendered frame.                                       *)
(***************************************************************************)
\* The frame on the screen was drawn from the current input.
FrameShown == pc \in {"read", "quit"} /\ frame.drawn

\* C18 as stated: in every rendered frame word_1 is the target word whose
\* index is the number of spaces typed so far and word_2 is the target word
\* after it; with the index past the last target word no word is shown.
C18_WordUnderCursor ==
    FrameShown =>
      LET ws == split_whitespace(target)
          n  == Spaces(input)
      IN  /\ frame.word_1 = (IF n + 1 <= Len(ws) THEN Some(ws[n + 1]) ELSE Nothing)
          /\ frame.word_2 = (IF n + 2 <= Len(ws) THEN Some(ws[n + 2]) ELSE Nothing)

(***************************************************************************)
(* Accounting and word alignment of the spans of a finished call.          *)
(***************************************************************************)
\* The number of characters held by the spans of the classes in S.
SpanChars(sp, S) == CountIn(Flatten(sp), Len(Flatten(sp)), S)

\* C19: in the spans of a finished call the Correct, Wrong, Skipped and Hidden
\* spans hold as many characters as the target and the Correct, Wrong and
\* Overflow spans as many as the input; a character is Hidden only once the
\* input is exhausted, so there is at most one Hidden span and it is the last.
C19_Accounting ==
    /\ Done =>
         /\ SpanChars(spans, TargetDerived) = Len(target)
         /\ SpanChars(spans, InputSide) = Len(input)
         /\ \A k \in 1..Len(spans) : spans[k].class = "Hidden" => k = Len(spans)
    /\ pc = "diff" =>
         \A k \in 1..Len(cs.chars) :
            cs.chars[k].class = "Hidden" =>
              /\ IPos(cs.chars, k) = Len(input) + 1
              /\ \A m \in k..Len(cs.chars) : cs.chars[m].class = "Hidden"

\* A letter typed against the target's space and the rest of the target hidden.
C19_Witness ==
    /\ Done
    /\ Len(spans) = 3
    /\ spans[1].class = "Correct"
    /\ spans[2].class = "Overflow"
    /\ spans[3] = GameSpan("Hidden", <<" ", "_">>)

\* The number of spaces among the first n characters of a string.
SpacesUpTo(str, n) == Cardinality({ k \in 1..Min(n, Len(str)) : str[k] = " " })

\* C20: the words of the input stay aligned with the words of the target.  A
\* target space is only ever Correct or Hidden; an input space is only ever
\* Correct or Overflow, and Overflow only with the target exhausted; the k-th
\* space of the target is Correct exactly when the input has at least k
\* spaces, and is then paired with the k-th space of the input; hence every
\* character compared (Correct or Wrong) lies in the word of the input with
\* the same number as its target word.
C20_WordAlignment ==
    Classified =>
      \A k \in 1..Len(cs.chars) :
         LET e  == cs.chars[k]
             tp == TPos(cs.chars, k)
             ip == IPos(cs.chars, k)
         IN  /\ (e.class \in TargetDerived /\ TPeek(k) = " ") =>
                   /\ e.class \in {"Correct", "Hidden"}
                   /\ e.class = "Correct" <=> Spaces(input) >= SpacesUpTo(target, tp)
                   /\ e.class = "Correct" =>
                         /\ IPeek(k) = " "
                         /\ SpacesUpTo(input, ip) = SpacesUpTo(target, tp)
             /\ (e.class \in InputSide /\ IPeek(k) = " ") =>
                   /\ e.class \in {"Correct", "Overflow"}
                   /\ e.class = "Overflow" => TPeek(k) = None
             /\ e.class \in {"Correct", "Wrong"} =>
                   SpacesUpTo(input, ip - 1) = SpacesUpTo(target, tp - 1)

\* A word typed one letter too long: the extra letter is Overflow, the spaces
\* are paired and the next word is still hidden.
C20_Witness ==
    /\ Done
    /\ Len(cs.chars) = 4
    /\ cs.chars[2].class = "Overflow"
    /\ cs.chars[3] = GameSpan("Correct", " ")
    /\ cs.chars[4] = GameSpan("Hidden", "_")

====
